---- MODULE Spec2Model ----
(***************************************************************************)
(* Model of src/lib.rs of backtrace-rs: the process-wide reentrancy lock   *)
(* (mod lock: LOCK, INIT, LOCK_HELD, lock(), LockGuard) and the abort      *)
(* guard (Bomb).                                                           *)
(*                                                                         *)
(* Threads call lock(), run a locked region while they own the LockGuard,  *)
(* may call lock() again from inside the region, may create / disarm /     *)
(* drop a Bomb inside the region, may fail (panic) inside the region, and  *)
(* release the guard either at normal scope exit or while unwinding.       *)
(* The model follows the default panic strategy (unwinding): a panic that  *)
(* starts while the thread is already panicking aborts the process; an     *)
(* unwinding that reaches the thread's outermost frame is caught there and *)
(* the thread carries on.                                                  *)
(***************************************************************************)
EXTENDS Naturals, FiniteSets

\* Number of threads that use the lock.
NumThreads == 2

\* Number of LockGuards a single thread obtains before it stops asking.
MaxRounds == 2

Threads == 1..NumThreads

VARIABLES
    pc,          \* pc[t]: where thread t is (see PcValues)
    LOCK_HELD,   \* LOCK_HELD[t]: the thread-local Cell<bool> of thread t
    LOCK,        \* static mut LOCK: 0 = null, k = pointer stored by the k-th initialisation
    INIT,        \* static INIT: Once: "new", "running" or "done"
    mutexOwner,  \* the threads owning a live MutexGuard of *LOCK ({} = unlocked)
    poisoned,    \* the poison flag of *LOCK
    guard,       \* guard[t]: thread t owns a live LockGuard
    bomb,        \* bomb[t]: "none", "armed" (enabled = true), "disarmed" (enabled = false)
    panicking,   \* panicking[t]: a panic is propagating on thread t
    aborted,     \* the process was terminated
    rounds,      \* rounds[t]: number of LockGuards thread t has obtained so far
    refused,     \* refused[t]: a lock() of t returned None since t last obtained a guard
    last         \* the last event: [t |-> thread, op |-> what happened]

vars == <<pc, LOCK_HELD, LOCK, INIT, mutexOwner, poisoned, guard, bomb,
          panicking, aborted, rounds, refused, last>>

\* Positions of a thread.
\*   idle        outside lock() and outside the locked region
\*   l130        inside lock(), passed the LOCK_HELD test, before set(true)
\*   l132        inside lock(), at INIT.call_once
\*   init        inside the call_once closure
\*   l135        inside lock(), at (*LOCK).lock()
\*   unwrap      inside lock(), holding Err(PoisonError(guard)), at unwrap()
\*   region      inside the locked region, owning a LockGuard
\*   drop_mutex  inside the drop of a LockGuard, after LockGuard::drop ran,
\*               before the MutexGuard field is dropped
\*   unwind      a panic is unwinding the thread's frames
PcValues == {"idle", "l130", "l132", "init", "l135", "unwrap", "region",
             "drop_mutex", "unwind"}

Event(t, op) == [t |-> t, op |-> op]

TypeOK ==
    /\ pc \in [Threads -> PcValues]
    /\ LOCK_HELD \in [Threads -> BOOLEAN]
    /\ LOCK \in 0..NumThreads
    /\ INIT \in {"new", "running", "done"}
    /\ mutexOwner \in SUBSET Threads
    /\ poisoned \in BOOLEAN
    /\ guard \in [Threads -> BOOLEAN]
    /\ bomb \in [Threads -> {"none", "armed", "disarmed"}]
    /\ panicking \in [Threads -> BOOLEAN]
    /\ aborted \in BOOLEAN
    /\ rounds \in [Threads -> 0..MaxRounds]
    /\ refused \in [Threads -> BOOLEAN]

Init ==
    /\ pc = [t \in Threads |-> "idle"]
    /\ LOCK_HELD = [t \in Threads |-> FALSE]
    /\ LOCK = 0
    /\ INIT = "new"
    /\ mutexOwner = {}
    /\ poisoned = FALSE
    /\ guard = [t \in Threads |-> FALSE]
    /\ bomb = [t \in Threads |-> "none"]
    /\ panicking = [t \in Threads |-> FALSE]
    /\ aborted = FALSE
    /\ rounds = [t \in Threads |-> 0]
    /\ refused = [t \in Threads |-> FALSE]
    /\ last = Event(0, "start")

----------------------------------------------------------------------------
\* lock()

\* Mutant of Slot: LOCK_HELD is one flag shared by all threads.
Slot_Shared(t) == 1

\* thread_local!(static LOCK_HELD ..): LOCK_HELD.with(..) on thread t reaches
\* the slot of thread t.
Slot(t) == t

\* Mutant of IsReentrant: the test of LOCK_HELD is left out.
IsReentrant_Never(t) == FALSE

\* if LOCK_HELD.with(|l| l.get()) { return None }
IsReentrant(t) == LOCK_HELD[Slot(t)]

\* Mutant of HeldAfterRefusal: the refused call clears the flag.
HeldAfterRefusal_Cleared(held) == FALSE

\* return None: the flag is left as it was read.
HeldAfterRefusal(held) == held

\* Mutant of HeldAfterSet: the flag is not set.
HeldAfterSet_Unchanged(held) == held

\* s.set(true)
HeldAfterSet(held) == TRUE

\* Entry of lock(): the test of the thread-local flag.  The caller is either
\* outside the region or inside it (a nested call); on None it is back where
\* it was, with nothing changed.
LockEnter(t) ==
    /\ ~aborted
    /\ pc[t] \in {"idle", "region"}
    /\ pc[t] = "idle" => rounds[t] < MaxRounds
    /\ IF IsReentrant(t)
       THEN /\ LOCK_HELD' = [LOCK_HELD EXCEPT ![Slot(t)] = HeldAfterRefusal(@)]
            /\ refused' = [refused EXCEPT ![t] = TRUE]
            /\ last' = Event(t, "None")
            /\ UNCHANGED pc
       ELSE /\ pc' = [pc EXCEPT ![t] = "l130"]
            /\ last' = Event(t, "enter")
            /\ UNCHANGED <<LOCK_HELD, refused>>
    /\ UNCHANGED <<LOCK, INIT, mutexOwner, poisoned, guard, bomb, panicking,
                   aborted, rounds>>

\* LOCK_HELD.with(|s| s.set(true));
SetHeld(t) ==
    /\ ~aborted
    /\ UNCHANGED refused
    /\ pc[t] = "l130"
    /\ LOCK_HELD' = [LOCK_HELD EXCEPT ![Slot(t)] = HeldAfterSet(@)]
    /\ pc' = [pc EXCEPT ![t] = "l132"]
    /\ last' = Event(t, "set_held")
    /\ UNCHANGED <<LOCK, INIT, mutexOwner, poisoned, guard, bomb, panicking,
                   aborted, rounds>>

\* Mutant of OnceMustRun: every caller runs the closure.
OnceMustRun_Always == TRUE

\* Once::call_once runs the closure only when no call has started it.
OnceMustRun == INIT = "new"

\* Once::call_once returns without running the closure when a call completed.
OnceDone == INIT = "done"

\* INIT.call_once(|| ...): the first caller runs the closure, a caller that
\* arrives while the closure runs waits, a caller that arrives after it
\* completed goes on.
CallOnce(t) ==
    /\ ~aborted
    /\ UNCHANGED refused
    /\ pc[t] = "l132"
    /\ \/ /\ OnceMustRun
          /\ INIT' = "running"
          /\ pc' = [pc EXCEPT ![t] = "init"]
          /\ last' = Event(t, "once_run")
       \/ /\ OnceDone
          /\ INIT' = INIT
          /\ pc' = [pc EXCEPT ![t] = "l135"]
          /\ last' = Event(t, "once_skip")
    /\ UNCHANGED <<LOCK_HELD, LOCK, mutexOwner, poisoned, guard, bomb,
                   panicking, aborted, rounds>>

\* LOCK = mem::transmute(Box::new(Mutex::new(())));  then the Once completes.
InitLock(t) ==
    /\ ~aborted
    /\ UNCHANGED refused
    /\ pc[t] = "init"
    /\ LOCK' = LOCK + 1
    /\ mutexOwner' = {}
    /\ poisoned' = FALSE
    /\ INIT' = "done"
    /\ pc' = [pc EXCEPT ![t] = "l135"]
    /\ last' = Event(t, "init_lock")
    /\ UNCHANGED <<LOCK_HELD, guard, bomb, panicking, aborted, rounds>>

\* Mutant of MutexIsFree: the lock is taken without waiting for its owner.
MutexIsFree_Unchecked == TRUE

\* Mutex::lock blocks while another MutexGuard of the mutex is alive.
MutexIsFree == mutexOwner = {}

\* (*LOCK).lock(): blocks until the mutex is free and takes it; the result
\* is Err(PoisonError(guard)) when the mutex is poisoned and Ok(guard)
\* otherwise.  On Ok, unwrap() and Some(LockGuard(..)) give the caller its
\* LockGuard.
MutexLock(t) ==
    /\ ~aborted
    /\ pc[t] = "l135"
    /\ LOCK # 0
    /\ MutexIsFree
    /\ mutexOwner' = mutexOwner \cup {t}
    /\ IF poisoned
       THEN /\ pc' = [pc EXCEPT ![t] = "unwrap"]
            /\ last' = Event(t, "poison_err")
            /\ UNCHANGED <<guard, rounds, refused>>
       ELSE /\ pc' = [pc EXCEPT ![t] = "region"]
            /\ guard' = [guard EXCEPT ![t] = TRUE]
            /\ rounds' = [rounds EXCEPT ![t] = @ + 1]
            /\ refused' = [refused EXCEPT ![t] = FALSE]
            /\ last' = Event(t, "Some")
    /\ UNCHANGED <<LOCK_HELD, LOCK, INIT, poisoned, bomb, panicking, aborted>>

\* .unwrap() on Err(PoisonError(guard)): panics out of lock().  The error
\* value, and the MutexGuard in it, is dropped by the panic, which unlocks
\* the mutex; no LockGuard was built, so LockGuard::drop does not run and
\* LOCK_HELD keeps the value line 130 gave it.  The panic leaves lock() and
\* is caught in the caller.
UnwrapPanic(t) ==
    /\ ~aborted
    /\ UNCHANGED refused
    /\ pc[t] = "unwrap"
    /\ mutexOwner' = mutexOwner \ {t}
    /\ poisoned' = TRUE
    /\ pc' = [pc EXCEPT ![t] = "idle"]
    /\ last' = Event(t, "lock_panic")
    /\ UNCHANGED <<LOCK_HELD, LOCK, INIT, guard, bomb, panicking, aborted,
                   rounds>>

----------------------------------------------------------------------------
\* LockGuard

\* assert!(slot.get());
DropAssertHolds(t) == LOCK_HELD[Slot(t)]

\* Mutant of HeldAfterDrop: the drop leaves the flag as it is.
HeldAfterDrop_Kept(held) == held

\* slot.set(false);
HeldAfterDrop(held) == FALSE

\* Mutant of OwnerAfterUnlock: the MutexGuard is leaked, the mutex stays locked.
OwnerAfterUnlock_Kept(t) == mutexOwner

\* The MutexGuard field of the LockGuard is dropped after LockGuard::drop:
\* the mutex is unlocked.
OwnerAfterUnlock(t) == mutexOwner \ {t}

\* MutexGuard's drop poisons the mutex when the thread is panicking.
PoisonedAfterUnlock(t) == poisoned \/ panicking[t]

\* impl Drop for LockGuard: the assertion, then the flag is cleared.  A
\* failed assertion is a panic; a panic raised while the thread is already
\* panicking terminates the process.
RunLockGuardDrop(t) ==
    IF DropAssertHolds(t)
    THEN /\ LOCK_HELD' = [LOCK_HELD EXCEPT ![Slot(t)] = HeldAfterDrop(@)]
         /\ UNCHANGED <<panicking, aborted>>
    ELSE /\ UNCHANGED LOCK_HELD
         /\ IF panicking[t]
            THEN /\ aborted' = TRUE
                 /\ UNCHANGED panicking
            ELSE /\ panicking' = [panicking EXCEPT ![t] = TRUE]
                 /\ UNCHANGED aborted

\* The LockGuard goes out of scope at the normal end of the locked region.
Release(t) ==
    /\ ~aborted
    /\ UNCHANGED refused
    /\ pc[t] = "region"
    /\ bomb[t] = "none"
    /\ RunLockGuardDrop(t)
    /\ pc' = [pc EXCEPT ![t] = "drop_mutex"]
    /\ last' = Event(t, "guard_drop")
    /\ UNCHANGED <<LOCK, INIT, mutexOwner, poisoned, guard, bomb, rounds>>

\* The drop of the LockGuard's field, on either exit path.
MutexGuardDrop(t) ==
    /\ ~aborted
    /\ UNCHANGED refused
    /\ pc[t] = "drop_mutex"
    /\ mutexOwner' = OwnerAfterUnlock(t)
    /\ poisoned' = PoisonedAfterUnlock(t)
    /\ guard' = [guard EXCEPT ![t] = FALSE]
    /\ pc' = [pc EXCEPT ![t] = IF panicking[t] THEN "unwind" ELSE "idle"]
    /\ last' = Event(t, IF panicking[t] THEN "released_failing" ELSE "released")
    /\ UNCHANGED <<LOCK_HELD, LOCK, INIT, bomb, panicking, aborted, rounds>>

----------------------------------------------------------------------------
\* Bomb

\* Mutant of BombDropOutcome: the drop does nothing.
BombDropOutcome_Inert(enabled, isPanicking) == "none"

\* Mutant of BombDropOutcome: the drop does not look at enabled.
BombDropOutcome_IgnoresEnabled(enabled, isPanicking) ==
    IF isPanicking THEN "abort" ELSE "panic"

\* impl Drop for Bomb: if self.enabled { panic!(..) }.  The panic terminates
\* the process when the thread is already panicking and starts unwinding the
\* thread otherwise.
BombDropOutcome(enabled, isPanicking) ==
    IF enabled
    THEN IF isPanicking THEN "abort" ELSE "panic"
    ELSE "none"

\* let mut bomb = Bomb { enabled: true };
BombNew(t) ==
    /\ ~aborted
    /\ UNCHANGED refused
    /\ pc[t] = "region"
    /\ bomb[t] = "none"
    /\ bomb' = [bomb EXCEPT ![t] = "armed"]
    /\ last' = Event(t, "bomb_new")
    /\ UNCHANGED <<pc, LOCK_HELD, LOCK, INIT, mutexOwner, poisoned, guard,
                   panicking, aborted, rounds>>

\* bomb.enabled = false;
BombDisarm(t) ==
    /\ ~aborted
    /\ UNCHANGED refused
    /\ pc[t] = "region"
    /\ bomb[t] = "armed"
    /\ bomb' = [bomb EXCEPT ![t] = "disarmed"]
    /\ last' = Event(t, "bomb_disarm")
    /\ UNCHANGED <<pc, LOCK_HELD, LOCK, INIT, mutexOwner, poisoned, guard,
                   panicking, aborted, rounds>>

\* The effect of Bomb::drop on thread t.
RunBombDrop(t) ==
    LET outcome == BombDropOutcome(bomb[t] = "armed", panicking[t])
    IN  /\ bomb' = [bomb EXCEPT ![t] = "none"]
        /\ aborted' = (outcome = "abort")
        /\ panicking' = [panicking EXCEPT ![t] = @ \/ outcome = "panic"]
        /\ pc' = [pc EXCEPT ![t] = IF outcome = "panic" THEN "unwind" ELSE @]

\* The Bomb goes out of scope with no panic propagating.
BombScopeExit(t) ==
    /\ ~aborted
    /\ UNCHANGED refused
    /\ pc[t] = "region"
    /\ bomb[t] # "none"
    /\ RunBombDrop(t)
    /\ last' = Event(t, IF bomb[t] = "armed" THEN "bomb_exit_armed"
                                             ELSE "bomb_exit_disarmed")
    /\ UNCHANGED <<LOCK_HELD, LOCK, INIT, mutexOwner, poisoned, guard, rounds>>

----------------------------------------------------------------------------
\* Failure inside the locked region

\* A panic starts inside the locked region (in a callback, say).
Fail(t) ==
    /\ ~aborted
    /\ UNCHANGED refused
    /\ pc[t] = "region"
    /\ panicking' = [panicking EXCEPT ![t] = TRUE]
    /\ pc' = [pc EXCEPT ![t] = "unwind"]
    /\ last' = Event(t, "fail")
    /\ UNCHANGED <<LOCK_HELD, LOCK, INIT, mutexOwner, poisoned, guard, bomb,
                   aborted, rounds>>

\* Unwinding drops the Bomb (the innermost of the two scoped values).
UnwindBomb(t) ==
    /\ ~aborted
    /\ UNCHANGED refused
    /\ pc[t] = "unwind"
    /\ bomb[t] # "none"
    /\ RunBombDrop(t)
    /\ last' = Event(t, IF bomb[t] = "armed" THEN "bomb_unwind_armed"
                                             ELSE "bomb_unwind_disarmed")
    /\ UNCHANGED <<LOCK_HELD, LOCK, INIT, mutexOwner, poisoned, guard, rounds>>

\* Unwinding drops the LockGuard.
UnwindGuard(t) ==
    /\ ~aborted
    /\ UNCHANGED refused
    /\ pc[t] = "unwind"
    /\ bomb[t] = "none"
    /\ guard[t]
    /\ RunLockGuardDrop(t)
    /\ pc' = [pc EXCEPT ![t] = "drop_mutex"]
    /\ last' = Event(t, "guard_drop_failing")
    /\ UNCHANGED <<LOCK, INIT, mutexOwner, poisoned, guard, bomb, rounds>>

\* The panic left the locked region and is caught in the thread's caller.
Caught(t) ==
    /\ ~aborted
    /\ UNCHANGED refused
    /\ pc[t] = "unwind"
    /\ bomb[t] = "none"
    /\ ~guard[t]
    /\ panicking' = [panicking EXCEPT ![t] = FALSE]
    /\ pc' = [pc EXCEPT ![t] = "idle"]
    /\ last' = Event(t, "caught")
    /\ UNCHANGED <<LOCK_HELD, LOCK, INIT, mutexOwner, poisoned, guard, bomb,
                   aborted, rounds>>

----------------------------------------------------------------------------

Next ==
    \E t \in Threads :
        \/ LockEnter(t)
        \/ SetHeld(t)
        \/ CallOnce(t)
        \/ InitLock(t)
        \/ MutexLock(t)
        \/ UnwrapPanic(t)
        \/ Release(t)
        \/ MutexGuardDrop(t)
        \/ BombNew(t)
        \/ BombDisarm(t)
        \/ BombScopeExit(t)
        \/ Fail(t)
        \/ UnwindBomb(t)
        \/ UnwindGuard(t)
        \/ Caught(t)

Spec == Init /\ [][Next]_vars

\* Scheduling for the liveness claims.  Every thread keeps running: a step
\* of the code that is ready to run is eventually run (WF).  A thread that
\* owns a LockGuard eventually lets it go: it leaves the scope of its Bomb
\* and of its guard (SF on BombScopeExit and Release, which nested lock()
\* calls and Bomb operations disable only for a moment).  A thread waiting
\* in Mutex::lock gets the mutex if the mutex is free again and again (SF),
\* which is more than std's Mutex promises; calling lock() and failing
\* inside the region are the environment's choice and are not forced.
Fairness ==
    \A t \in Threads :
        /\ WF_vars(SetHeld(t))
        /\ WF_vars(CallOnce(t))
        /\ WF_vars(InitLock(t))
        /\ SF_vars(MutexLock(t))
        /\ WF_vars(UnwrapPanic(t))
        /\ SF_vars(Release(t))
        /\ SF_vars(BombScopeExit(t))
        /\ WF_vars(MutexGuardDrop(t))
        /\ WF_vars(UnwindBomb(t))
        /\ WF_vars(UnwindGuard(t))
        /\ WF_vars(Caught(t))

LiveSpec == Init /\ [][Next]_vars /\ Fairness

----------------------------------------------------------------------------
\* Properties

\* Thread t is inside a call of lock() that passed the LOCK_HELD test.
InsideLock(t) == pc[t] \in {"l130", "l132", "init", "l135", "unwrap"}

\* Thread t cannot take a step until another thread does.
Blocked(t) ==
    \/ pc[t] = "l135" /\ ~(LOCK # 0 /\ MutexIsFree)
    \/ pc[t] = "l132" /\ ~(OnceMustRun \/ OnceDone)

\* Thread t is in the middle of lock(), of the locked region or of a drop.
Unfinished(t) == pc[t] # "idle"

\* C1. Mutual exclusion: in every reachable state at most one thread owns a
\* LockGuard (is inside the locked region, or is still dropping its guard).
C1_MutualExclusion == Cardinality({t \in Threads : guard[t]}) <= 1

\* A thread is inside the locked region while another waits in Mutex::lock.
C1_Witness ==
    \E t, u \in Threads :
        t # u /\ guard[t] /\ pc[t] = "region" /\ pc[u] = "l135"

\* C2. Reentrancy refusal: a thread that owns a LockGuard and calls lock()
\* gets None at the LOCK_HELD test; it never passes the test, so it is never
\* at call_once, never waiting in Mutex::lock, never at unwrap.
C2_ReentrancyRefused == \A t \in Threads : guard[t] => ~InsideLock(t)

\* A thread that owns a LockGuard called lock() and got None.
C2_Witness == \E t \in Threads : guard[t] /\ last = Event(t, "None")

\* C3. lock() returns None only for same-thread re-entry: whenever a call of
\* lock() by thread t returned None, t owns a LockGuard.
C3_NoneOnlyOnReentry ==
    \A t \in Threads : last = Event(t, "None") => guard[t]

\* C4. Eventual acquisition: a call of lock() by a thread that owns no
\* LockGuard (it has passed the LOCK_HELD test) eventually gives the thread
\* a LockGuard, unless the process is terminated.
C4_EventualAcquisition ==
    \A t \in Threads : (pc[t] = "l130") ~> (guard[t] \/ aborted)

\* C5. When the drop of a LockGuard is complete, on the normal exit path and
\* on the failure path alike, the thread's LOCK_HELD is false, the thread
\* owns no guard, and the mutex is unlocked.
C5_ReleaseClearsBoth ==
    \A t \in Threads :
        last \in {Event(t, "released"), Event(t, "released_failing")}
            => ~LOCK_HELD[t] /\ ~guard[t] /\ mutexOwner = {}

\* A guard was released by a failure propagating out of the locked region.
C5_Witness ==
    \E t \in Threads :
        last = Event(t, "released_failing") /\ ~LOCK_HELD[t] /\ mutexOwner = {}

C7_DeadlockFree ==
    ~aborted =>
        /\ \A t \in Threads : pc[t] = "l135" => t \notin mutexOwner
        /\ \A t \in Threads :
              Blocked(t) =>
                  \E u \in Threads : u # t /\ Unfinished(u) /\ ~Blocked(u)
        /\ (\E t \in Threads : Unfinished(t))
              => \E t \in Threads : Unfinished(t) /\ ~Blocked(t)

\* A thread that owns the guard was refused a nested lock() while another
\* thread is blocked in Mutex::lock.
C7_Witness ==
    \E t, u \in Threads :
        /\ guard[t] /\ last = Event(t, "None")
        /\ pc[u] = "l135" /\ Blocked(u)

\* C8 (as claimed). A Bomb dropped while armed terminates the process,
\* whether it is dropped by an unwinding panic or at a normal scope exit.
C8_ArmedDropTerminates ==
    \A t \in Threads :
        last \in {Event(t, "bomb_unwind_armed"), Event(t, "bomb_exit_armed")}
            => aborted

\* C8 (amended). A Bomb dropped while armed terminates the process when a
\* failure is propagating on the thread; dropped while armed with no failure
\* propagating it raises a panic, which starts unwinding the thread, and the
\* process is not terminated.
C8_ArmedDropAmended ==
    \A t \in Threads :
        /\ last = Event(t, "bomb_unwind_armed") => aborted
        /\ last = Event(t, "bomb_exit_armed")
              => ~aborted /\ panicking[t] /\ pc[t] = "unwind"

\* An armed Bomb was dropped by an unwinding panic and the process is
\* terminated.
C8_Witness ==
    \E t \in Threads : last = Event(t, "bomb_unwind_armed") /\ aborted

\* C9. Acquisition is failure-safe: no call of lock() ends in a failure
\* (a panic leaving lock()).
C9_LockNeverFails ==
    \A t \in Threads : last # Event(t, "lock_panic")

\* C10. A disarmed Bomb has no effect when dropped: at the scope exit of the
\* clean path no panic starts and the process is not terminated, the thread
\* goes on in the region; dropped by an unwinding it does not terminate the
\* process either.
C10_DisarmedDropInert ==
    \A t \in Threads :
        /\ last = Event(t, "bomb_exit_disarmed")
              => ~aborted /\ ~panicking[t] /\ pc[t] = "region"
        /\ last = Event(t, "bomb_unwind_disarmed")
              => ~aborted /\ pc[t] = "unwind"

\* A disarmed Bomb left its scope on the clean path.
C10_Witness ==
    \E t \in Threads :
        last = Event(t, "bomb_exit_disarmed") /\ bomb[t] = "none" /\ guard[t]

\* C11. A refused reentrant lock() changes nothing: right after a guard
\* owner's lock() returned None, its LOCK_HELD is still true, the mutex is
\* still owned by that thread alone, the thread is still in its region with
\* its guard, no panic started and the process runs; and when the outer
\* guard is dropped after such a refusal, the release is complete
\* (LOCK_HELD false, no guard, mutex unlocked).
C11_RefusalChangesNothing ==
    \A t \in Threads :
        /\ last = Event(t, "None") /\ guard[t]
              => /\ LOCK_HELD[t]
                 /\ mutexOwner = {t}
                 /\ pc[t] = "region"
                 /\ ~panicking[t]
                 /\ ~aborted
        /\ refused[t]
           /\ last \in {Event(t, "released"), Event(t, "released_failing")}
              => ~LOCK_HELD[t] /\ ~guard[t] /\ mutexOwner = {}

\* The outer guard was dropped, and fully released, after a nested lock()
\* had been refused.
C11_Witness ==
    \E t \in Threads :
        refused[t] /\ last = Event(t, "released") /\ mutexOwner = {}

\* Thread t is inside lock() after line 130: at call_once, in its closure,
\* waiting in or returning from Mutex::lock.
WaitingInLock(t) == pc[t] \in {"l132", "init", "l135", "unwrap"}

\* C12. Held-flag consistency: a thread's LOCK_HELD is true if and only if
\* the thread owns a LockGuard or is inside lock() on its way to the mutex;
\* so a thread that left lock() without a guard has its flag false.  (A
\* thread in the middle of dropping its guard, between the two halves of
\* the drop, is left out.)
C12_HeldFlagConsistent ==
    \A t \in Threads :
        pc[t] # "drop_mutex"
            => (LOCK_HELD[t] <=> (guard[t] \/ WaitingInLock(t)))

\* C13. The assertion in LockGuard::drop never fails: while a thread's
\* LockGuard is live and its drop has not run (the thread is in its region,
\* in a nested lock(), or unwinding towards the guard) LOCK_HELD is true;
\* and no drop of a guard ended in the assertion's panic (a new panic at
\* scope exit, a termination of the process during unwinding).
C13_DropAssertNeverFails ==
    \A t \in Threads :
        /\ guard[t] /\ pc[t] # "drop_mutex" => LOCK_HELD[t]
        /\ last = Event(t, "guard_drop") => ~panicking[t] /\ ~aborted
        /\ last = Event(t, "guard_drop_failing") => ~aborted

\* A guard was dropped at scope exit after a nested lock() had been refused,
\* and the assertion passed.
C13_Witness ==
    \E t \in Threads :
        /\ last = Event(t, "guard_drop")
        /\ refused[t]
        /\ ~panicking[t]
        /\ pc[t] = "drop_mutex"

\* Thread t is past INIT.call_once in lock(), or owns what lock() gave it.
UsesMutex(t) ==
    \/ pc[t] \in {"l135", "unwrap", "region", "drop_mutex"}
    \/ guard[t]
    \/ t \in mutexOwner

\* C14. One-time initialisation: the mutex is created at most once (LOCK is
\* stored at most once, by the one thread that runs the call_once closure,
\* and INIT is complete exactly when it is stored), and every thread that is
\* past call_once, waits for the mutex, owns it or owns a guard uses that
\* one initialised mutex: LOCK is never null and never replaced under it.
C14_InitialisedOnce ==
    /\ LOCK <= 1
    /\ (LOCK = 1) <=> (INIT = "done")
    /\ Cardinality({t \in Threads : pc[t] = "init"}) <= 1
    /\ \A t \in Threads : pc[t] = "init" => INIT = "running" /\ LOCK = 0
    /\ \A t \in Threads : UsesMutex(t) => LOCK = 1 /\ INIT = "done"

\* Two threads called lock() for the first time concurrently: one created
\* the mutex and owns it, the other skipped the closure and now waits for
\* the same mutex.
C14_Witness ==
    \E t, u \in Threads :
        /\ t # u
        /\ rounds[t] = 1 /\ guard[t] /\ mutexOwner = {t}
        /\ rounds[u] = 0 /\ last = Event(u, "once_skip") /\ pc[u] = "l135"
        /\ LOCK = 1

\* C15. Thread-locality of the held flag: every step that changes the
\* LOCK_HELD of a thread u is a step of u itself (of its lock() or of the
\* drop of its guard), so a lock() or a guard drop of thread t leaves the
\* flag of every other thread as it was; and a thread that passed the
\* LOCK_HELD test keeps a false flag until it sets it itself, whatever the
\* other threads hold.
C15_HeldFlagThreadLocal ==
    /\ [][\A u \in Threads :
             LOCK_HELD'[u] # LOCK_HELD[u] => last'.t = u]_vars
    /\ [](\A u \in Threads : pc[u] = "l130" => ~LOCK_HELD[u])

\* A thread owns the guard, with its flag true, and another thread's lock()
\* has just passed the LOCK_HELD test with its own flag false.
C15_Witness ==
    \E t, u \in Threads :
        /\ t # u
        /\ guard[t] /\ LOCK_HELD[t]
        /\ last = Event(u, "enter") /\ ~LOCK_HELD[u]

====
